---------------------------- MODULE Spec2Model ----------------------------
(***************************************************************************)
(* Model of mailer.py (Excel -> Outlook mailer).                           *)
(*                                                                         *)
(* Text is modelled as a sequence of atoms.  An atom is either the blank   *)
(* " ", a separator ";" or ",", or a word that contains neither blanks nor *)
(* separators.  Python's None is the value NoneVal.  A dict is a function  *)
(* whose domain is its set of keys.                                        *)
(***************************************************************************)
EXTENDS Integers, Sequences, FiniteSets, TLC

VARIABLES
    pc,             \* position of the running program
    args,           \* parsed command line (argparse namespace)
    env,            \* the files the run reads: workbook, template, stores
    global_subject, \* main: global_subject
    contacts,       \* main: contacts
    signature_html, \* main: signature_html
    i,              \* main: loop index of enumerate(contacts, start=1)
    sent,           \* main: sent
    failed,         \* main: failed
    sigLookups,     \* number of calls of read_signature/read_default_signature
    log,            \* what the run did, in order: prints, transport calls, sleeps
    call,           \* arguments of a function applied on its own
    ret             \* its result

vars == <<pc, args, env, global_subject, contacts, signature_html, i, sent,
          failed, sigLookups, log, call, ret>>

mainVars == <<args, env, global_subject, contacts, signature_html, i, sent,
              failed, sigLookups, log>>

-----------------------------------------------------------------------------
(* Bounds of the model *)

MaxRows == 3        \* data rows of the workbook of a run of main
MaxDataRows == 2    \* data rows of a sheet given to load_contacts alone
MaxCols == 2        \* columns of a sheet given to load_contacts alone
MaxTitle == 3       \* atoms of a title given to build_anrede_brief
MaxBody == 3        \* atoms of a template body given to render_html

-----------------------------------------------------------------------------
(* Strings *)

NoneVal == <<"<None>">>

EmptyDict == [k \in {} |-> <<>>]

Put(d, k, v) == [x \in (DOMAIN d) \cup {k} |-> IF x = k THEN v ELSE d[x]]

Get(d, k, default) == IF k \in DOMAIN d THEN d[k] ELSE default

\* str.lower() on one atom
LowerAtom(a) ==
    CASE a = "Email" -> "email"
      [] a = "EMAIL" -> "email"
      [] a = "Betreff" -> "betreff"
      [] a = "CC" -> "cc"
      [] a = "BCC" -> "bcc"
      [] a = "AnhangPfad" -> "anhangpfad"
      [] a = "Anrede" -> "anrede"
      [] a = "Vorname" -> "vorname"
      [] a = "Nachname" -> "nachname"
      [] a = "Firma" -> "firma"
      [] a = "Titel" -> "titel"
      [] a = "AnredeBrief" -> "anredebrief"
      [] a = "Herr" -> "herr"
      [] a = "HERR" -> "herr"
      [] a = "Frau" -> "frau"
      [] a = "FRAU" -> "frau"
      [] a = "Dr." -> "dr."
      [] a = "Divers" -> "divers"
      [] a = "None" -> "none"
      [] a = "Auto" -> "auto"
      [] a = "Chef" -> "chef"
      [] a = "X" -> "x"
      [] a = "<!--SIGNATURE-->" -> "<!--signature-->"
      [] a = "<!--Signature-->" -> "<!--signature-->"
      [] OTHER -> a

Lower(s) == [k \in 1..Len(s) |-> LowerAtom(s[k])]

RECURSIVE LStrip(_)
LStrip(s) == IF s # <<>> /\ Head(s) = " " THEN LStrip(Tail(s)) ELSE s

RECURSIVE RStrip(_)
RStrip(s) ==
    IF s # <<>> /\ s[Len(s)] = " " THEN RStrip(SubSeq(s, 1, Len(s) - 1)) ELSE s

\* str.strip()
Strip(s) == RStrip(LStrip(s))

\* str(v)
PyStr(v) == IF v = NoneVal THEN <<"None">> ELSE v

\* x or y, on strings and None
Or(x, y) == IF x = NoneVal \/ x = <<>> THEN y ELSE x

normalize(s) == Strip(Or(s, <<>>))

RECURSIVE Flatten(_)
Flatten(ss) == IF ss = <<>> THEN <<>> ELSE Head(ss) \o Flatten(Tail(ss))

\* " ".join(parts)
RECURSIVE JoinBlank(_)
JoinBlank(parts) ==
    IF parts = <<>> THEN <<>>
    ELSE IF Len(parts) = 1 THEN parts[1]
    ELSE parts[1] \o <<" ">> \o JoinBlank(Tail(parts))

NonEmpty(s) == s # <<>>

-----------------------------------------------------------------------------
(* build_anrede_brief *)

\* str.startswith(word) where word is an atom: the first atom begins with it
StartsWith(s, word) ==
    /\ s # <<>>
    /\ s[1] \in {word, word \o "n", word \o "mann"}

pick(t, fb) ==
    IF t = <<>> THEN <<fb>>
    ELSE IF StartsWith(Lower(t), "herr") \/ StartsWith(Lower(t), "frau") THEN t
    ELSE <<fb, " ">> \o t

build_anrede_brief(anrede, titel, vorname, nachname) ==
    LET a == Lower(normalize(anrede))
        t == normalize(titel)
        ln == normalize(nachname)
        fn == Strip(JoinBlank(SelectSeq(<<normalize(vorname), normalize(nachname)>>,
                                        NonEmpty)))
    IN  IF a = <<"herr">>
        THEN Strip(<<"Sehr", " ", "geehrter", " ">> \o pick(t, "Herr") \o <<" ">>
                   \o Or(ln, fn))
        ELSE IF a = <<"frau">>
        THEN Strip(<<"Sehr", " ", "geehrte", " ">> \o pick(t, "Frau") \o <<" ">>
                   \o Or(ln, fn))
        ELSE IF fn # <<>> THEN <<"Guten", " ", "Tag", " ">> \o fn
        ELSE <<"Guten", " ", "Tag">>

-----------------------------------------------------------------------------
(* load_contacts *)

\* key of column k (1-based here, enumerate's i is k - 1)
ColumnKey(headers, k) ==
    IF k - 1 < Len(headers) THEN headers[k] ELSE <<"spalte_" \o ToString(k)>>

CellText(v) == IF v # NoneVal THEN normalize(PyStr(v)) ELSE <<>>

\* the inner loop over enumerate(r): later columns overwrite earlier ones
RECURSIVE RowRecord(_, _, _, _)
RowRecord(headers, r, k, rec) ==
    IF k > Len(r) THEN rec
    ELSE RowRecord(headers, r, k + 1, Put(rec, ColumnKey(headers, k), CellText(r[k])))

\* variant: tests only that the record has an 'email' key
KeepsRow_AnyKey(rec) == <<"email">> \in DOMAIN rec

KeepsRow(rec) == Get(rec, <<"email">>, <<>>) # <<>>

\* rows is list(ws.iter_rows(values_only=True)) of the selected sheet
load_contacts(rows) ==
    IF Len(rows) < 2 THEN <<>>
    ELSE LET headers == [k \in 1..Len(rows[1]) |-> Lower(normalize(PyStr(rows[1][k])))]
             recs == [n \in 1..(Len(rows) - 1) |->
                         RowRecord(headers, rows[n + 1], 1, EmptyDict)]
         IN  SelectSeq(recs, KeepsRow)

-----------------------------------------------------------------------------
(* render_html *)

\* the template variable an atom of the template names, <<>> for literal text
VarOf(a) ==
    CASE a = "{{AnredeBrief}}" -> <<"AnredeBrief">>
      [] a = "{{Firma}}" -> <<"Firma">>
      [] a = "{{Email}}" -> <<"Email">>
      [] OTHER -> <<>>

\* Template(text).render(**context): an undefined variable renders as ""
RenderTemplate(template, context) ==
    Flatten([k \in 1..Len(template) |->
                IF VarOf(template[k]) = <<>> THEN <<template[k]>>
                ELSE Get(context, VarOf(template[k]), <<>>)])

Contains(s, a) == \E k \in 1..Len(s) : s[k] = a

\* re.sub(r"<!--signature-->|<!--SIGNATURE-->", repl, html, flags=re.I):
\* count is 0, so every match is replaced; re.I matches any letter case
ReSubMarker(html, repl) ==
    Flatten([k \in 1..Len(html) |->
                IF LowerAtom(html[k]) = "<!--signature-->" THEN repl
                ELSE <<html[k]>>])

SpliceSignature(html, signature) ==
    IF signature # <<>>
    THEN IF Contains(html, "<!--SIGNATURE-->") \/ Contains(html, "<!--signature-->")
         THEN ReSubMarker(html, signature)
         ELSE html \o <<"<br>">> \o signature
    ELSE html

render_html(template, context, signature) ==
    SpliceSignature(RenderTemplate(template, context), signature)

-----------------------------------------------------------------------------
(* parse_list_field, add_attachments, send_outlook *)

IsSep(a) == a \in {";", ","}

\* re.split(r"[;,]", val)
RECURSIVE ReSplit(_, _)
ReSplit(val, piece) ==
    IF val = <<>> THEN <<piece>>
    ELSE IF IsSep(Head(val)) THEN <<piece>> \o ReSplit(Tail(val), <<>>)
    ELSE ReSplit(Tail(val), Append(piece, Head(val)))

StripsNonEmpty(p) == Strip(p) # <<>>

parse_list_field(val) ==
    IF val = <<>> THEN <<>>
    ELSE LET parts == SelectSeq(ReSplit(val, <<>>), StripsNonEmpty)
         IN  [k \in 1..Len(parts) |-> Strip(parts[k])]

\* the paths for which fp.exists() and fp.is_file()
IsFile(fs, p) == p \in fs

\* the paths given to mail.Attachments.Add, in order
add_attachments(fs, field_value) ==
    LET paths == parse_list_field(field_value)
        ks == {k \in 1..Len(paths) : IsFile(fs, paths[k])}
        Nth[n \in 0..Len(paths)] ==
            IF n = 0 THEN <<>>
            ELSE IF n \in ks THEN Append(Nth[n - 1], paths[n]) ELSE Nth[n - 1]
    IN  Nth[Len(paths)]

\* the mail item send_outlook builds before mail.Display / mail.Send
send_outlook(fs, to_addr, subject, html, cc, bcc, attachments, display) ==
    [To |-> to_addr,
     CC |-> IF cc # <<>> THEN cc ELSE <<>>,
     BCC |-> IF bcc # <<>> THEN bcc ELSE <<>>,
     Subject |-> subject,
     HTMLBody |-> html,
     Attachments |-> IF attachments # <<>> THEN add_attachments(fs, attachments)
                     ELSE <<>>,
     how |-> IF display THEN "Display" ELSE "Send"]

-----------------------------------------------------------------------------
(* read_subject, read_signature, read_default_signature *)

read_subject(textFiles, arg) ==
    IF arg = NoneVal \/ arg = <<>> THEN <<>>
    ELSE IF arg \in DOMAIN textFiles THEN Strip(textFiles[arg])
    ELSE Strip(arg)

\* each lookup yields the set of results it can have; ok = FALSE is the
\* FileNotFoundError
read_signature(store, sig_name) ==
    LET hits == {f \in store.files : f.ext = "htm" /\ <<f.name>> = sig_name}
    IN  IF store.exists /\ hits # {}
        THEN {[ok |-> TRUE, text |-> f.text] : f \in hits}
        ELSE {[ok |-> FALSE, text |-> <<>>]}

\* sorted(..., key=st_mtime, reverse=True)[0]: a newest .htm file
read_default_signature(store) ==
    LET candidates == {f \in store.files : f.ext = "htm"}
        newest == {f \in candidates : \A g \in candidates : g.mtime <= f.mtime}
    IN  IF store.exists /\ candidates # {}
        THEN {[ok |-> TRUE, text |-> f.text] : f \in newest}
        ELSE {[ok |-> FALSE, text |-> <<>>]}

-----------------------------------------------------------------------------
(* Functions applied on their own to bounded inputs *)

SeqsUpTo(S, n) == UNION {[1..k -> S] : k \in 0..n}

\* a run of main that never starts: the variables of main stay as they are
MainIdle ==
    /\ args = <<>>
    /\ env = <<>>
    /\ global_subject = <<>>
    /\ contacts = <<>>
    /\ signature_html = <<>>
    /\ i = 0
    /\ sent = 0
    /\ failed = 0
    /\ sigLookups = 0
    /\ log = <<>>

HeaderCells == {<<" ", "Email">>, <<"EMAIL", " ">>, <<"X">>, NoneVal}

DataCells == {NoneVal, <<" ">>, <<" ", "a", " ">>}

\* a sheet is empty, or a header row and data rows of the same width w
InitLoad ==
    /\ pc = "call"
    /\ \/ call = [fn |-> "load_contacts", rows |-> <<>>]
       \/ \E w \in 1..MaxCols :
          \E h \in [1..w -> HeaderCells] :
          \E d \in SeqsUpTo([1..w -> DataCells], MaxDataRows) :
              call = [fn |-> "load_contacts", rows |-> <<h>> \o d]
    /\ ret = <<>>
    /\ MainIdle

LoadContacts ==
    /\ pc = "call"
    /\ call.fn = "load_contacts"
    /\ ret' = load_contacts(call.rows)
    /\ pc' = "return"
    /\ UNCHANGED <<call, mainVars>>

NextLoad == LoadContacts

SpecLoad == InitLoad /\ [][NextLoad]_vars

TitleAtoms == {"Dr.", "Herr", "FRAU", " "}

\* the words of the text are apart: no two word atoms are adjacent
WellSpaced(t) == \A k \in 1..(Len(t) - 1) : t[k] = " " \/ t[k + 1] = " "

Titles == {t \in SeqsUpTo(TitleAtoms, MaxTitle) : WellSpaced(t)}

InitGreeting ==
    /\ pc = "call"
    /\ call \in [fn : {"build_anrede_brief"},
                 anrede : {<<"Herr">>, <<" ", "frau">>, <<"Divers">>, <<>>},
                 titel : Titles,
                 vorname : {<<>>, <<"Max">>},
                 nachname : {<<>>, <<"Muller", " ">>}]
    /\ ret = <<>>
    /\ MainIdle

BuildAnredeBrief ==
    /\ pc = "call"
    /\ call.fn = "build_anrede_brief"
    /\ ret' = build_anrede_brief(call.anrede, call.titel, call.vorname, call.nachname)
    /\ pc' = "return"
    /\ UNCHANGED <<call, mainVars>>

NextGreeting == BuildAnredeBrief

SpecGreeting == InitGreeting /\ [][NextGreeting]_vars

BodyAtoms == {"t", "<!--SIGNATURE-->", "<!--signature-->", "<!--Signature-->",
              "{{Firma}}"}

InitRender ==
    /\ pc = "call"
    /\ call \in [fn : {"render_html"},
                 template : SeqsUpTo(BodyAtoms, MaxBody),
                 context : {EmptyDict, Put(EmptyDict, <<"Firma">>, <<"ACME">>)},
                 signature : {<<>>, <<"Gruss", "Chef">>}]
    /\ ret = <<>>
    /\ MainIdle

RenderHtml ==
    /\ pc = "call"
    /\ call.fn = "render_html"
    /\ ret' = render_html(call.template, call.context, call.signature)
    /\ pc' = "return"
    /\ UNCHANGED <<call, mainVars>>

NextRender == RenderHtml

SpecRender == InitRender /\ [][NextRender]_vars

-----------------------------------------------------------------------------
(* main: the inputs of a run *)

MainHeader == <<<<"Email">>, <<"Betreff">>, <<"CC">>, <<"BCC">>, <<"AnhangPfad">>>>

BlankEmailRow == <<<<" ">>, <<"Hallo">>, NoneVal, NoneVal, NoneVal>>

PlainRow == <<<<"a@x.com", " ">>, NoneVal, NoneVal, NoneVal, NoneVal>>

FullRow ==
    <<<<"b@x.com">>,
      <<" ", "Hallo">>,
      <<"a@x.com", ";", " ", "b@x.com", ",", "c@x.com">>,
      <<"d@x.com", ";">>,
      <<"f.pdf", ";", " ", "g.pdf">>>>

RowPool == {BlankEmailRow, PlainRow, FullRow}

MailTemplate == <<"{{AnredeBrief}}", "Text", "<!--SIGNATURE-->">>

\* the text files a -subject argument can name, and the files on disk that an
\* AnhangPfad can name
TextFiles == Put(EmptyDict, <<"betreff.txt">>, <<" ", "Aus", " ", "Datei", " ">>)

DiskFiles == {<<"f.pdf">>}

NoStore == [exists |-> FALSE, files |-> {}]

NotesOnlyStore ==
    [exists |-> TRUE,
     files |-> {[name |-> "Chef", ext |-> "txt", mtime |-> 3, text |-> <<"Notiz">>]}]

FullStore ==
    [exists |-> TRUE,
     files |-> {[name |-> "Chef", ext |-> "htm", mtime |-> 1, text |-> <<"Gruss", "Chef">>],
                [name |-> "Neu", ext |-> "htm", mtime |-> 2, text |-> <<"Gruss", "Neu">>],
                [name |-> "Alt", ext |-> "htm", mtime |-> 2, text |-> <<"Gruss", "Alt">>],
                [name |-> "Nix", ext |-> "txt", mtime |-> 3, text |-> <<"Notiz">>]}]

Init ==
    /\ pc = "start"
    /\ args \in [dry : BOOLEAN,
                 display : BOOLEAN,
                 subject : {NoneVal, <<" ">>, <<"Info", " ">>, <<"betreff.txt">>},
                 sig : {<<"Auto">>, <<"None">>, <<"Chef">>, <<"Nix">>}]
    /\ \E files \in {<<TRUE, TRUE>>, <<FALSE, TRUE>>, <<TRUE, FALSE>>} :
       \E store \in {NoStore, NotesOnlyStore, FullStore} :
       \E data \in SeqsUpTo(RowPool, MaxRows) :
           env = [excel_exists |-> files[1],
                  template_exists |-> files[2],
                  rows |-> <<MainHeader>> \o data,
                  template |-> MailTemplate,
                  textFiles |-> TextFiles,
                  fs |-> DiskFiles,
                  sigStore |-> store]
    /\ global_subject = <<>>
    /\ contacts = <<>>
    /\ signature_html = <<>>
    /\ i = 0
    /\ sent = 0
    /\ failed = 0
    /\ sigLookups = 0
    /\ log = <<>>
    /\ call = <<>>
    /\ ret = <<>>

-----------------------------------------------------------------------------
(* main: per-row values *)

row_subject(c) == Strip(Get(c, <<"betreff">>, <<>>))

EffectiveSubject(c, gs) == Or(row_subject(c), gs)

\* variant: the subject test is missing
SkipsRow_Never(subject, dry) == FALSE

\* variant: the subject test ignores the dry-run flag
SkipsRow_AlsoDry(subject, dry) == subject = <<>>

\* the test that skips a row in a live run
SkipsRow(subject, dry) == subject = <<>> /\ dry = FALSE

Context(c) ==
    LET base == [k \in {<<"Email">>, <<"Anrede">>, <<"Vorname">>, <<"Nachname">>,
                        <<"Firma">>, <<"Titel">>} |->
                    Get(c, Lower(k), <<>>)]
        ctx == Put(base, <<"AnredeBrief">>,
                   build_anrede_brief(base[<<"Anrede">>], base[<<"Titel">>],
                                      base[<<"Vorname">>], base[<<"Nachname">>]))
        taken == {Lower(kk) : kk \in DOMAIN ctx}
        extra == {k \in DOMAIN c : Lower(k) \notin taken}
    IN  [k \in (DOMAIN ctx) \cup extra |-> IF k \in DOMAIN ctx THEN ctx[k] ELSE c[k]]

AttachRaw(c) == Or(Get(c, <<"anhangpfad">>, <<>>), Get(c, <<"anhang">>, <<>>))

\* the send_outlook call of row c: its arguments and the mail item it builds
Invocation(c, n, ok) ==
    [ev |-> "send",
     row |-> n,
     ok |-> ok,
     sig |-> signature_html,
     cc_raw |-> Get(c, <<"cc">>, <<>>),
     bcc_raw |-> Get(c, <<"bcc">>, <<>>),
     attach_raw |-> AttachRaw(c),
     mail |-> send_outlook(env.fs, Get(c, <<"email">>, <<>>),
                           EffectiveSubject(c, global_subject),
                           render_html(env.template, Context(c), signature_html),
                           Get(c, <<"cc">>, <<>>), Get(c, <<"bcc">>, <<>>),
                           AttachRaw(c), args.display)]

Preview(c, n) ==
    [ev |-> "preview",
     row |-> n,
     sig |-> signature_html,
     to |-> Get(c, <<"email">>, <<>>),
     subject |-> Or(EffectiveSubject(c, global_subject), <<"(leer)">>),
     cc |-> Get(c, <<"cc">>, <<>>),
     bcc |-> Get(c, <<"bcc">>, <<>>),
     anhang |-> AttachRaw(c),
     html |-> render_html(env.template, Context(c), signature_html)]

-----------------------------------------------------------------------------
(* main: the steps of a run *)

\* up to the contact check: missing files and an empty contact list are fatal
Start ==
    /\ pc = "start"
    /\ IF ~env.excel_exists \/ ~env.template_exists
       THEN /\ pc' = "exit"
            /\ log' = Append(log, [ev |-> "fatal", why |-> "file"])
            /\ UNCHANGED <<global_subject, contacts>>
       ELSE LET cs == load_contacts(env.rows)
            IN  /\ global_subject' = IF Or(args.subject, <<>>) # <<>>
                                     THEN read_subject(env.textFiles, args.subject)
                                     ELSE <<>>
                /\ contacts' = cs
                /\ IF cs = <<>>
                   THEN /\ pc' = "exit"
                        /\ log' = Append(log, [ev |-> "fatal", why |-> "contacts"])
                   ELSE /\ pc' = "sig"
                        /\ UNCHANGED log
    /\ UNCHANGED <<args, env, signature_html, i, sent, failed, sigLookups, call, ret>>

\* variant: the FileNotFoundError of a named signature is not caught
ResolveSignature_Raises ==
    /\ pc = "sig"
    /\ IF Lower(args.sig) = <<"none">>
       THEN /\ signature_html' = <<>>
            /\ pc' = "loop"
            /\ i' = 1
            /\ UNCHANGED <<sigLookups, log>>
       ELSE \E r \in (IF Lower(args.sig) = <<"auto">>
                      THEN read_default_signature(env.sigStore)
                      ELSE read_signature(env.sigStore, args.sig)) :
                /\ sigLookups' = sigLookups + 1
                /\ signature_html' = IF r.ok THEN r.text ELSE signature_html
                /\ IF r.ok \/ Lower(args.sig) = <<"auto">>
                   THEN pc' = "loop" /\ i' = 1
                   ELSE pc' = "exit" /\ i' = i
                /\ log' = IF r.ok \/ Lower(args.sig) # <<"auto">> THEN log
                          ELSE Append(log, [ev |-> "warn_sig", sig |-> args.sig])
    /\ UNCHANGED <<args, env, global_subject, contacts, sent, failed, call, ret>>

\* a lookup that raised is caught: a warning, and the signature stays empty
ResolveSignature ==
    /\ pc = "sig"
    /\ IF Lower(args.sig) = <<"none">>
       THEN /\ signature_html' = <<>>
            /\ UNCHANGED <<sigLookups, log>>
       ELSE \E r \in (IF Lower(args.sig) = <<"auto">>
                      THEN read_default_signature(env.sigStore)
                      ELSE read_signature(env.sigStore, args.sig)) :
                /\ sigLookups' = sigLookups + 1
                /\ signature_html' = IF r.ok THEN r.text ELSE signature_html
                /\ log' = IF r.ok THEN log
                          ELSE Append(log, [ev |-> "warn_sig", sig |-> args.sig])
    /\ pc' = "loop"
    /\ i' = 1
    /\ UNCHANGED <<args, env, global_subject, contacts, sent, failed, call, ret>>

AtRow == pc = "loop" /\ i <= Len(contacts)

\* the row is left by one of the two "continue" of the head of the loop body:
\* no email, or no subject in a live run
Skips ==
    /\ AtRow
    /\ \/ Get(contacts[i], <<"email">>, <<>>) = <<>>
       \/ SkipsRow(EffectiveSubject(contacts[i], global_subject), args.dry)

\* the row reaches the dry-run branch
Previews ==
    /\ AtRow
    /\ Get(contacts[i], <<"email">>, <<>>) # <<>>
    /\ ~SkipsRow(EffectiveSubject(contacts[i], global_subject), args.dry)
    /\ args.dry

\* the row reaches the send_outlook call
Sends ==
    /\ AtRow
    /\ Get(contacts[i], <<"email">>, <<>>) # <<>>
    /\ ~SkipsRow(EffectiveSubject(contacts[i], global_subject), args.dry)
    /\ ~args.dry

SkipRow ==
    /\ Skips
    /\ LET c == contacts[i]
           email == Get(c, <<"email">>, <<>>)
       IN  /\ IF email = <<>>
              THEN UNCHANGED <<failed, log>>
              ELSE /\ failed' = failed + 1
                   /\ log' = Append(log, [ev |-> "skip", row |-> i, to |-> email])
    /\ i' = i + 1
    /\ UNCHANGED <<pc, args, env, global_subject, contacts, signature_html, sent,
                   sigLookups, call, ret>>

PreviewRow ==
    /\ Previews
    /\ log' = Append(log, Preview(contacts[i], i))
    /\ i' = i + 1
    /\ UNCHANGED <<pc, args, env, global_subject, contacts, signature_html, sent,
                   failed, sigLookups, call, ret>>

\* send_outlook returns
SendOk ==
    /\ Sends
    /\ sent' = sent + 1
    /\ log' = Append(log, Invocation(contacts[i], i, TRUE))
    /\ pc' = "sleep"
    /\ UNCHANGED <<args, env, global_subject, contacts, signature_html, i, failed,
                   sigLookups, call, ret>>

\* variant: the Exception of send_outlook is not caught and ends the run
SendErr_Uncaught ==
    /\ Sends
    /\ log' = Append(log, Invocation(contacts[i], i, FALSE))
    /\ pc' = "exit"
    /\ UNCHANGED <<args, env, global_subject, contacts, signature_html, i, sent,
                   failed, sigLookups, call, ret>>

\* variant: the pause is inside the try block, after the call, so that a
\* raising call skips it
SendErr_NoPause ==
    /\ Sends
    /\ failed' = failed + 1
    /\ log' = Append(log, Invocation(contacts[i], i, FALSE))
    /\ i' = i + 1
    /\ UNCHANGED <<pc, args, env, global_subject, contacts, signature_html, sent,
                   sigLookups, call, ret>>

\* send_outlook raises an Exception, which the loop body catches
SendErr ==
    /\ Sends
    /\ failed' = failed + 1
    /\ log' = Append(log, Invocation(contacts[i], i, FALSE))
    /\ pc' = "sleep"
    /\ UNCHANGED <<args, env, global_subject, contacts, signature_html, i, sent,
                   sigLookups, call, ret>>

\* time.sleep(args.throttle) at the end of the loop body
Pause ==
    /\ pc = "sleep"
    /\ log' = Append(log, [ev |-> "sleep", row |-> i])
    /\ i' = i + 1
    /\ pc' = "loop"
    /\ UNCHANGED <<args, env, global_subject, contacts, signature_html, sent, failed,
                   sigLookups, call, ret>>

\* after the loop: the summary, which a dry run does not print
Summary ==
    /\ pc = "loop"
    /\ i > Len(contacts)
    /\ log' = IF ~args.dry
              THEN Append(log, [ev |-> "summary", sent |-> sent, failed |-> failed])
              ELSE log
    /\ pc' = "done"
    /\ UNCHANGED <<args, env, global_subject, contacts, signature_html, i, sent,
                   failed, sigLookups, call, ret>>

Next ==
    \/ Start
    \/ ResolveSignature
    \/ SkipRow
    \/ PreviewRow
    \/ SendOk
    \/ SendErr
    \/ Pause
    \/ Summary

Spec == Init /\ [][Next]_vars

-----------------------------------------------------------------------------
(* Properties of a run of main *)

InLoop == pc \in {"loop", "sleep", "done"}

\* the run can take its next step
CanStep ==
    CASE pc = "start" -> ENABLED Start
      [] pc = "sig" -> ENABLED ResolveSignature
      [] pc = "sleep" -> ENABLED Pause
      [] pc = "loop" /\ i > Len(contacts) -> ENABLED Summary
      [] pc = "loop" /\ i <= Len(contacts) -> Skips \/ Previews \/ Sends
      [] OTHER -> FALSE

\* rows the loop has taken up so far
Handled == IF pc = "sleep" THEN i ELSE i - 1

EventsOf(kinds) == SelectSeq(log, LAMBDA e : e.ev \in kinds)

OkSends == SelectSeq(log, LAMBDA e : e.ev = "send" /\ e.ok)

\* the subject a row is to be sent with: its own trimmed 'betreff' if that is
\* non-empty, else the global subject
Eff(c) ==
    LET own == IF <<"betreff">> \in DOMAIN c THEN Strip(c[<<"betreff">>]) ELSE <<>>
    IN  IF own # <<>> THEN own ELSE global_subject

\* C1: in a live run send_outlook is invoked only with a non-empty effective
\* subject (the row's trimmed 'betreff' if non-empty, else the global subject);
\* a row whose effective subject is empty causes no invocation, is counted as
\* failed and not as sent, and the loop goes on with the next row.
C1_LiveSubject ==
    (InLoop /\ args.dry = FALSE) =>
        /\ \A k \in 1..Len(log) :
               log[k].ev = "send" =>
                   /\ log[k].mail.Subject # <<>>
                   /\ log[k].mail.Subject = Eff(contacts[log[k].row])
        /\ \A n \in 1..Handled :
               Eff(contacts[n]) = <<>> =>
                   /\ \A k \in 1..Len(log) : log[k].ev = "send" => log[k].row # n
                   /\ Cardinality({k \in 1..Len(log) :
                                      log[k].ev = "skip" /\ log[k].row = n}) = 1
        /\ failed = Len(EventsOf({"skip"})) + Len(EventsOf({"send"})) - Len(OkSends)
        /\ sent = Len(OkSends)
        /\ pc # "done" => CanStep

C1_Witness ==
    /\ pc = "done"
    /\ args.dry = FALSE
    /\ \E j, k \in 1..Len(log) :
           /\ j < k
           /\ log[j].ev = "skip"
           /\ log[k].ev = "send"
           /\ log[k].mail.Subject = <<"Hallo">>
    /\ failed >= 1

\* C2: in a dry run with N retained rows exactly N previews are printed, one
\* per row in order, and send_outlook is never invoked; a row with neither a
\* row-level nor a global subject is previewed with a placeholder, not skipped.
C2_DryRun ==
    (InLoop /\ args.dry = TRUE) =>
        LET previews == EventsOf({"preview"})
        IN  /\ \A k \in 1..Len(log) : log[k].ev \notin {"send", "sleep", "skip"}
            /\ pc # "sleep"
            /\ sent = 0
            /\ Len(previews) = i - 1
            /\ \A n \in 1..Len(previews) :
                   /\ previews[n].row = n
                   /\ previews[n].to = contacts[n][<<"email">>]
                   /\ previews[n].subject =
                          IF Eff(contacts[n]) = <<>> THEN <<"(leer)">>
                          ELSE Eff(contacts[n])
            /\ pc = "done" => Len(previews) = Len(contacts)

C2_Witness ==
    /\ pc = "done"
    /\ args.dry = TRUE
    /\ Len(contacts) >= 2
    /\ \E j, k \in 1..Len(log) :
           /\ log[j].ev = "preview" /\ log[j].subject = <<"(leer)">>
           /\ log[k].ev = "preview" /\ log[k].subject = <<"Hallo">>

\* C3: in a live run no row's failure aborts the batch: whatever rows lack a
\* subject and whatever invocations raise, every contact row is processed
\* exactly once in order, each adds one to exactly one of sent and failed, and
\* the run reaches the summary with sent + failed = N and sent the number of
\* invocations that returned.
C3_NoAbort ==
    /\ pc = "exit" => i = 0
    /\ (InLoop /\ args.dry = FALSE) =>
           LET rowEv == EventsOf({"skip", "send"})
           IN  /\ Len(rowEv) = Handled
               /\ \A n \in 1..Len(rowEv) : rowEv[n].row = n
               /\ sent + failed = Handled
               /\ sent = Len(OkSends)
               /\ pc # "done" => CanStep
               /\ pc = "done" =>
                      /\ Handled = Len(contacts)
                      /\ sent + failed = Len(contacts)
                      /\ log[Len(log)] =
                             [ev |-> "summary", sent |-> sent, failed |-> failed]

C3_Witness ==
    /\ pc = "done"
    /\ args.dry = FALSE
    /\ sent >= 1
    /\ \E j, k, m \in 1..Len(log) :
           /\ j < k /\ k < m
           /\ log[j].ev = "send" /\ ~log[j].ok
           /\ log[k].ev = "skip"
           /\ log[m].ev = "send" /\ log[m].ok

\* C4: every invocation of send_outlook, returning or raising, is followed by
\* exactly one pause before the next row or the summary; rows skipped for a
\* missing subject and rows of a dry run trigger no pause.
C4_Throttle ==
    /\ \A k \in 1..Len(log) :
           /\ log[k].ev = "send" =>
                  IF k < Len(log)
                  THEN log[k + 1].ev = "sleep" /\ log[k + 1].row = log[k].row
                  ELSE pc = "sleep"
           /\ log[k].ev = "sleep" => (k > 1 /\ log[k - 1].ev = "send")
    /\ pc = "sleep" => (log # <<>> /\ log[Len(log)].ev = "send")

C4_Witness ==
    /\ pc = "done"
    /\ \E j, k, m \in 1..Len(log) :
           /\ log[j].ev = "send" /\ ~log[j].ok /\ log[j + 1].ev = "sleep"
           /\ log[k].ev = "send" /\ log[k].ok /\ log[k + 1].ev = "sleep"
           /\ log[m].ev = "skip" /\ log[m + 1].ev # "sleep"

\* the lookup of this run cannot succeed: the store directory is absent, or it
\* holds no .htm file (auto), or not the named one
Unresolvable ==
    LET store == env.sigStore
        htm == {f \in store.files : f.ext = "htm"}
    IN  /\ Lower(args.sig) # <<"none">>
        /\ \/ ~store.exists
           \/ Lower(args.sig) = <<"auto">> /\ htm = {}
           \/ Lower(args.sig) # <<"auto">> /\ \A f \in htm : <<f.name>> # args.sig

\* C5: a signature that cannot be resolved never aborts the batch: in auto and
\* in explicit-name mode a failed lookup becomes a warning and an empty
\* signature; the signature is resolved at most once, before the row loop, and
\* every row is dispatched with that value; mode none performs no lookup.
C5_Signature ==
    /\ sigLookups <= 1
    /\ pc \in {"start", "sig", "exit"} => sigLookups = 0
    /\ pc = "exit" => \A k \in 1..Len(log) : log[k].ev # "warn_sig"
    /\ pc = "sig" => CanStep
    /\ InLoop =>
           /\ sigLookups = IF Lower(args.sig) = <<"none">> THEN 0 ELSE 1
           /\ Lower(args.sig) = <<"none">> => signature_html = <<>>
           /\ Unresolvable =>
                  /\ signature_html = <<>>
                  /\ \E k \in 1..Len(log) : log[k].ev = "warn_sig"
           /\ \A k \in 1..Len(log) :
                  log[k].ev \in {"send", "preview"} => log[k].sig = signature_html
           /\ pc = "done" =>
                  Len(EventsOf({"skip", "send", "preview"})) = Len(contacts)

C5_Witness ==
    /\ pc = "done"
    /\ Unresolvable
    /\ Lower(args.sig) # <<"auto">>
    /\ env.sigStore.exists
    /\ Len(contacts) >= 2
    /\ Len(EventsOf({"send"})) >= 2

RECURSIVE JoinWith(_, _)
JoinWith(pieces, sep) ==
    IF pieces = <<>> THEN <<>>
    ELSE IF Len(pieces) = 1 THEN pieces[1]
    ELSE pieces[1] \o <<sep>> \o JoinWith(Tail(pieces), sep)

\* the field is exactly the pieces, in order, with one separator between them
IsListOf(field, pieces) == \E sep \in {";", ","} : field = JoinWith(pieces, sep)

\* the non-empty trimmed pieces of a field split on ',' or ';', in order
RECURSIVE Pieces(_, _)
Pieces(val, piece) ==
    LET done == IF Strip(piece) # <<>> THEN <<Strip(piece)>> ELSE <<>>
    IN  IF val = <<>> THEN done
        ELSE IF Head(val) \in {";", ","} THEN done \o Pieces(Tail(val), <<>>)
        ELSE Pieces(Tail(val), Append(piece, Head(val)))

\* C10: the CC list, BCC list and attachment list of the message handed to the
\* mail transport each consist of exactly the non-empty trimmed pieces of the
\* row's field, split on ',' or ';', in their original order.
C10_ParsedLists ==
    \A k \in 1..Len(log) :
        log[k].ev = "send" =>
            /\ IsListOf(log[k].mail.CC, Pieces(log[k].cc_raw, <<>>))
            /\ IsListOf(log[k].mail.BCC, Pieces(log[k].bcc_raw, <<>>))
            /\ log[k].mail.Attachments = Pieces(log[k].attach_raw, <<>>)

-----------------------------------------------------------------------------
(* Properties of load_contacts *)

Returned(fn) == pc = "return" /\ call.fn = fn

EmailSpellings == {"email", "Email", "EMAIL"}

\* header cell h, trimmed, is 'email' in some letter case
IsEmailHeader(h) ==
    /\ h # NoneVal
    /\ \E k \in 1..Len(h) :
           /\ h[k] \in EmailSpellings
           /\ \A j \in 1..Len(h) : j # k => h[j] = " "

\* cell v is empty after trimming
BlankCell(v) == v = NoneVal \/ \A k \in 1..Len(v) : v[k] = " "

\* the records of data rows ns (in order) of sheet rows
RECURSIVE RecordsOf(_, _, _)
RecordsOf(rows, n, col) ==
    IF n > Len(rows) THEN <<>>
    ELSE (IF BlankCell(rows[n][col]) THEN <<>>
          ELSE <<RowRecord([k \in 1..Len(rows[1]) |->
                               Lower(normalize(PyStr(rows[1][k])))],
                           rows[n], 1, EmptyDict)>>)
         \o RecordsOf(rows, n + 1, col)

\* C6: load_contacts returns exactly the data rows, in their original order,
\* whose 'email' cell is non-empty after trimming, the email column being the
\* one whose trimmed header is 'email' in any letter case; a sheet with no such
\* column, or with fewer than two rows, yields no contact.
C6_EmailFilter ==
    Returned("load_contacts") =>
        LET rows == call.rows
            cols == IF rows = <<>> THEN {}
                    ELSE {k \in 1..Len(rows[1]) : IsEmailHeader(rows[1][k])}
        IN  /\ cols = {} => ret = <<>>
            /\ Cardinality(cols) = 1 =>
                   LET col == CHOOSE k \in cols : TRUE
                   IN  /\ ret = RecordsOf(rows, 2, col)
                       /\ \A n \in 1..Len(ret) : ret[n][<<"email">>] # <<>>
                       /\ Len(ret) = Cardinality({n \in 2..Len(rows) :
                                                     ~BlankCell(rows[n][col])})

C6_Witness ==
    /\ Returned("load_contacts")
    /\ Len(call.rows) = 3
    /\ Len(call.rows[1]) = 2
    /\ call.rows[1][2] = <<"EMAIL", " ">>
    /\ call.rows[1][1] = <<"X">>
    /\ call.rows[2] = <<<<" ", "a", " ">>, <<" ">>>>
    /\ call.rows[3] = <<NoneVal, <<" ", "a", " ">>>>
    /\ Len(ret) = 1
    /\ ret[1][<<"email">>] = <<"a">>

\* C7: a blank header cell or a header that repeats an earlier one never
\* makes one column's value lost or overwritten: every cell of a data row is
\* in the record under a key of its own (a positional name where the column
\* has no usable header).
C7_NoColumnLost ==
    Returned("load_contacts") =>
        \A n \in 1..Len(ret) : Cardinality(DOMAIN ret[n]) = Len(call.rows[1])

-----------------------------------------------------------------------------
(* Properties of render_html *)

IsMarker(a) == a \in {"<!--SIGNATURE-->", "<!--signature-->", "<!--Signature-->"}

\* html with its first marker (of any letter case) replaced by signature
RECURSIVE ReplaceFirst(_, _)
ReplaceFirst(html, signature) ==
    IF html = <<>> THEN <<>>
    ELSE IF IsMarker(Head(html)) THEN signature \o Tail(html)
    ELSE <<Head(html)>> \o ReplaceFirst(Tail(html), signature)

\* C8: with a non-empty signature, a body that holds the marker in any letter
\* case has its first marker, and only that one, replaced by the signature and
\* nothing appended; only a body with no marker of any letter case has the
\* signature appended once after a line break.
C8_MarkerSplice ==
    (Returned("render_html") /\ call.signature # <<>>) =>
        LET body == RenderTemplate(call.template, call.context)
        IN  IF \E k \in 1..Len(body) : IsMarker(body[k])
            THEN ret = ReplaceFirst(body, call.signature)
            ELSE ret = body \o <<"<br>">> \o call.signature

-----------------------------------------------------------------------------
(* Properties of build_anrede_brief *)

\* occurrences of a salutation word as a word of its own in s
SalutationCount(s) ==
    Cardinality({k \in 1..Len(s) :
                    /\ s[k] \in {"Herr", "HERR", "herr", "Frau", "FRAU", "frau"}
                    /\ k > 1 => s[k - 1] = " "
                    /\ k < Len(s) => s[k + 1] = " "})

\* C9: for gender Herr or Frau the salutation word occurs in the greeting no
\* more often than in the title when the title holds one, and exactly once
\* when the title holds none.
C9_NoDuplicateSalutation ==
    (/\ Returned("build_anrede_brief")
     /\ \E k \in 1..Len(call.anrede) : call.anrede[k] \in {"Herr", "frau"}) =>
        IF SalutationCount(call.titel) > 0
        THEN SalutationCount(ret) <= SalutationCount(call.titel)
        ELSE SalutationCount(ret) = 1

=============================================================================
